---- MODULE Spec2Model ----
(***************************************************************************)
(* RC receiver PWM reader with an exact-value LED blinker (src/main.cpp).  *)
(*                                                                         *)
(* Three execution contexts share the state below: the pin-change          *)
(* interrupt handler onRcChange, the thread taskRcInput and the thread     *)
(* taskLed.  Both clocks are 32-bit and free running.                      *)
(***************************************************************************)
EXTENDS Integers, Sequences, FiniteSets, TLC

\* ------------------------------------------------------- 32-bit words
\* A uint32_t is held as the int32_t with the same 32 bits (0xFFFFFFFF is
\* -1), which is the whole range of the integers TLC computes with; the
\* operators below are the wrapping sum and difference of two such words.
MaxInt32 == 2147483647
MaxU16 == 65535

\* a + d modulo 2^32, d >= 0
Add32(a, d) ==
    IF a > MaxInt32 - d THEN ((a - MaxInt32) + (d - MaxInt32)) - 2 ELSE a + d

\* a - b modulo 2^32; read as a signed number it is (int32_t)(a - b)
Sub32(a, b) ==
    IF a >= 0 /\ b < 0 /\ a > MaxInt32 + b
        THEN ((a - MaxInt32) - 1) - ((b + MaxInt32) + 1)
    ELSE IF a < 0 /\ b >= 0 /\ a < (b - MaxInt32) - 1
        THEN ((a + MaxInt32) + 1) - ((b - MaxInt32) - 1)
    ELSE a - b

\* unsigned x > k for a constant k >= 0
UGt(x, k) == x < 0 \/ x > k

\* ------------------------------------------------------- program constants
RC_MIN_US == 800
RC_MAX_US == 2200
RC_TIMEOUT_MS == 300
AVG_WINDOW == 32
INVALID == 32767
BLINK_PERIOD == 200
INIT_MIN_PULSE == 2000
INIT_MAX_PULSE == 1000
PERCENT_STEPS == 200

\* ------------------------------------------------------------------ bounds
\* Milliseconds that may pass in clock steps while the firmware runs.
MaxUptime == 600
\* Milliseconds that may pass in clock steps while the Blinker is called
\* directly.
MaxElapsed == 1300
\* How many times a long silence (the receiver stays disconnected for most of
\* a period of the millisecond counter) is taken.
MaxSilences == 1
\* How many samples taskRcInput pushes through the moving average.
MaxFiltered == 3
\* Cap of the toggle counter kept for each pattern.
MaxToggles == 5

\* ------------------------------------------------------------- input sets
\* Clock steps in milliseconds while the firmware runs: less and more than
\* RC_TIMEOUT_MS.
SysDelays == {200, 400}
\* Clock steps in milliseconds between direct calls of the Blinker: half a
\* period, two periods, and a stall of five periods.
Delays == {100, 400, 1000}
\* micros() readings at a rising edge; -1000 is 2^32 - 1000, close to the wrap.
RiseTimes == {0, -1000}
\* True durations, in microseconds, between a rising edge and the next
\* falling-edge interrupt.
Widths == {3, 799, 800, 2200, 2201, MaxU16, MaxU16 + 1000}
\* Arguments of Blinker::start: a colour function (NULL is nullptr) and a
\* period.
NULL == "null"
Funcs == {"red", "blue", NULL}
Periods == {0, 200, 300}

\* ---------------------------------------------------------- integer casts
\* (int32_t)(a - b) for uint32_t a, b
SDiff(a, b) == Sub32(a, b)
\* C integer division (truncation towards zero), b > 0
CDiv(a, b) == IF a >= 0 THEN a \div b ELSE -((-a) \div b)
\* (uint16_t)x for x >= 0
ToU16(x) == x % (MaxU16 + 1)

\* -------------------------------------------------------------------- LED
Off == <<FALSE, FALSE, FALSE>>
setRgb(rOn, gOn, bOn) == <<rOn, gOn, bOn>>
rgbOff == setRgb(FALSE, FALSE, FALSE)
applyRgb(on, r, g, b) == IF on THEN setRgb(r, g, b) ELSE rgbOff
\* The colour functions red(on) ... orange(on), selected by name.
ApplyColor(func, on) ==
    CASE func = "red"    -> applyRgb(on, TRUE,  FALSE, FALSE)
      [] func = "yellow" -> applyRgb(on, TRUE,  TRUE,  FALSE)
      [] func = "green"  -> applyRgb(on, FALSE, TRUE,  FALSE)
      [] func = "purple" -> applyRgb(on, TRUE,  FALSE, TRUE)
      [] func = "blue"   -> applyRgb(on, FALSE, FALSE, TRUE)
      [] func = "lime"   -> applyRgb(on, FALSE, TRUE,  TRUE)
      [] func = "orange" -> applyRgb(on, TRUE,  TRUE,  TRUE)

VARIABLES
    millis,          \* the value millis() returns
    gRiseUs,         \* micros() at the last rising edge
    gLastPulseUs,    \* last published pulse width
    gLastSeenMs,     \* millis() when it was published
    irqOff,          \* TRUE between noInterrupts() and interrupts()
    rcPc,            \* taskRcInput's position
    us, seen,        \* taskRcInput's snapshot
    pulseBuffer, pulseIndex,
    gMinPulse, gMaxPulse,
    gStablePercent,
    ledPc,           \* taskLed's position
    now,             \* taskLed's local copy of gStablePercent
    lastPercent,
    throttleBlinker, \* [apply, periodMs, next, on]
    led,             \* the three LED outputs, TRUE = lit
    \* observation of the run, not program state
    spent,           \* milliseconds passed in ordinary clock steps
    silences,        \* long silences taken
    filtered,        \* calls of filterPulse
    lost,            \* the timeout branch ran when the last published sample
                     \* was stale, and nothing was published since
    calls,           \* Blinker methods called by the current caller activation
    t0,              \* millis() read by the last direct start() that armed
    toggles,         \* toggles since then by direct run() calls (capped)
    cancelled,       \* colour of the pattern the last direct start() found
                     \* active, NULL when it found none
    longAgo,         \* the counter has since come round to the time of the
                     \* last published sample: the sample is 2^32 - 1
                     \* milliseconds old or older
    lastFall         \* the last falling edge served on its own: the rise it
                     \* closed, the time that passed since that rise, the
                     \* sample it found and whether it published

vars == <<millis, gRiseUs, gLastPulseUs, gLastSeenMs, irqOff, rcPc, us, seen,
          pulseBuffer, pulseIndex, gMinPulse, gMaxPulse, gStablePercent,
          ledPc, now, lastPercent, throttleBlinker, led,
          spent, silences, filtered, lost, calls, t0, toggles, cancelled,
          longAgo, lastFall>>

isrVars == <<gRiseUs, gLastPulseUs, gLastSeenMs>>
rcVars == <<irqOff, rcPc, us, seen>>
filterVars == <<pulseBuffer, pulseIndex, gMinPulse, gMaxPulse>>
ledTaskVars == <<ledPc, now, lastPercent>>
blinkVars == <<throttleBlinker, led, calls, t0, toggles, cancelled>>
clockVars == <<millis, spent, silences>>

Init ==
    /\ millis = 0
    /\ gRiseUs = 0 /\ gLastPulseUs = 0 /\ gLastSeenMs = 0
    /\ irqOff = FALSE
    /\ rcPc = "lock" /\ us = 0 /\ seen = 0
    /\ pulseBuffer = [i \in 1..AVG_WINDOW |-> 0] /\ pulseIndex = 0
    /\ gMinPulse = INIT_MIN_PULSE /\ gMaxPulse = INIT_MAX_PULSE
    /\ gStablePercent = INVALID
    /\ ledPc = "update" /\ now = INVALID /\ lastPercent = INVALID
    /\ throttleBlinker = [apply |-> NULL, periodMs |-> 0, next |-> 0, on |-> FALSE]
    /\ led = Off
    /\ spent = 0 /\ silences = 0 /\ filtered = 0 /\ lost = FALSE
    /\ calls = <<>> /\ t0 = 0 /\ toggles = 0 /\ cancelled = NULL
    /\ longAgo = FALSE
    /\ lastFall = [rise |-> 0, width |-> 0, prior |-> <<0, 0>>,
                   published |-> FALSE]

\* ============================================================ onRcChange
\* x < y as unsigned 32-bit numbers
ULt(x, y) == IF (x < 0) = (y < 0) THEN x < y ELSE y < 0

\* the width taken as 0 when the counter reads less at the fall than at
\* the rise
PulseWidth_noWrap(t, rise) ==
    IF ULt(t, rise) THEN 0
    ELSE LET w == Sub32(t, rise) IN ToU16(IF UGt(w, MaxU16) THEN MaxU16 ELSE w)

\* the cast to uint16_t without the clamp before it
PulseWidth_truncating(t, rise) == ToU16(Sub32(t, rise))

\* w = t - gRiseUs, clamped to 0xFFFF, cast to uint16_t
PulseWidth(t, rise) ==
    LET w == Sub32(t, rise) IN ToU16(IF UGt(w, MaxU16) THEN MaxU16 ELSE w)

\* the band test without its upper limit
InBand_noUpper(w) == w >= RC_MIN_US

\* the band test with the lower limit left out of the band
InBand_exclusive(w) == w > RC_MIN_US /\ w <= RC_MAX_US

InBand(w) == w >= RC_MIN_US /\ w <= RC_MAX_US

\* The handler body for pin level lv read at micros() = t.
onRcChange(lv, t) ==
    IF lv = "HIGH"
    THEN /\ gRiseUs' = t
         /\ UNCHANGED <<gLastPulseUs, gLastSeenMs, lost, longAgo>>
    ELSE /\ UNCHANGED gRiseUs
         /\ IF InBand(PulseWidth(t, gRiseUs))
            THEN /\ gLastPulseUs' = PulseWidth(t, gRiseUs)
                 /\ gLastSeenMs' = millis
                 /\ lost' = FALSE
                 /\ longAgo' = FALSE
            ELSE UNCHANGED <<gLastPulseUs, gLastSeenMs, lost, longAgo>>

\* A rising edge is served: the handler reads HIGH.
RisingEdge ==
    /\ ~irqOff
    /\ \E t \in RiseTimes : onRcChange("HIGH", t)
    /\ UNCHANGED <<rcVars, filterVars, gStablePercent, ledTaskVars, blinkVars,
                   clockVars, filtered, lastFall>>

\* A falling edge is served w microseconds after the recorded rise: the
\* handler reads LOW.
FallingEdge ==
    /\ ~irqOff
    /\ \E w \in Widths : onRcChange("LOW", Add32(gRiseUs, w))
    /\ UNCHANGED <<rcVars, filterVars, gStablePercent, ledTaskVars, blinkVars,
                   clockVars, filtered, lastFall>>

\* The handler on its own, no thread running: a rising edge.
CaptureRise ==
    /\ \E t \in RiseTimes : onRcChange("HIGH", t)
    /\ UNCHANGED <<rcVars, filterVars, gStablePercent, ledTaskVars, blinkVars,
                   clockVars, filtered, lastFall>>

\* The handler on its own: a falling edge w microseconds after the recorded
\* rise, and the record of what the handler did with it.
CaptureFall ==
    /\ \E w \in Widths :
         /\ onRcChange("LOW", Add32(gRiseUs, w))
         /\ lastFall' = [rise |-> gRiseUs, width |-> w,
                         prior |-> <<gLastPulseUs, gLastSeenMs>>,
                         published |->
                             InBand(PulseWidth(Add32(gRiseUs, w), gRiseUs))]
    /\ UNCHANGED <<rcVars, filterVars, gStablePercent, ledTaskVars, blinkVars,
                   clockVars, filtered>>

\* =========================================================== filterPulse
RECURSIVE SumFrom(_, _)
\* sum of the non-zero entries pulseBuffer[i..AVG_WINDOW-1]; the C index i
\* is place i + 1 of the sequence buf
SumFrom(buf, i) ==
    IF i >= AVG_WINDOW THEN 0
    ELSE (IF buf[i + 1] > 0 THEN buf[i + 1] ELSE 0) + SumFrom(buf, i + 1)

CountNonZero(buf) == Cardinality({i \in DOMAIN buf : buf[i] > 0})

\* filterPulse(newVal) on buffer buf and write position idx:
\* the new buffer, the new position and the returned average.
filterPulse(buf, idx, newVal) ==
    LET b == [buf EXCEPT ![idx + 1] = newVal]
        i == IF idx + 1 >= AVG_WINDOW THEN 0 ELSE idx + 1
        sum == SumFrom(b, 0)
        count == CountNonZero(b)
    IN  [buf |-> b, idx |-> i,
         avg |-> IF count = 0 THEN 0 ELSE ToU16(sum \div count)]

\* ================================================= throttlePercentFromUs
\* the conversion without the two clamps at its end
throttlePercentFromUs_noClamp(w, minPulse, maxPulse) ==
    IF maxPulse <= minPulse THEN 0
    ELSE LET span == maxPulse - minPulse
             step == CDiv(span, PERCENT_STEPS)
         IN  IF step <= 0 THEN 0
             ELSE CDiv(w - minPulse, step) - 100

throttlePercentFromUs(w, minPulse, maxPulse) ==
    IF maxPulse <= minPulse THEN 0
    ELSE LET span == maxPulse - minPulse
             step == CDiv(span, PERCENT_STEPS)
         IN  IF step <= 0 THEN 0
             ELSE LET idx == CDiv(w - minPulse, step)
                      value == idx - 100
                  IN  IF value > 100 THEN 100
                      ELSE IF value < -100 THEN -100
                      ELSE value

\* =========================================================== taskRcInput
\* millis() - seen > RC_TIMEOUT_MS, in uint32_t arithmetic
\* the elapsed time compared as a signed number
IsStale_signed(t, s) == Sub32(t, s) > RC_TIMEOUT_MS

IsStale(t, s) == UGt(Sub32(t, s), RC_TIMEOUT_MS)

\* noInterrupts() that masks nothing
noInterrupts_unmasked == irqOff' = FALSE

noInterrupts == irqOff' = TRUE
interrupts == irqOff' = FALSE

\* the test of the width left out: the initial 0 counts as a sample
HasSample_any(w) == TRUE

\* else if (us > 0): a pulse has been published
HasSample(w) == w > 0

\* Lines 252-253: noInterrupts() and the first load.
RcLock ==
    /\ rcPc = "lock"
    /\ noInterrupts
    /\ us' = gLastPulseUs
    /\ rcPc' = "unlock"
    /\ UNCHANGED <<seen, isrVars, filterVars, gStablePercent, ledTaskVars,
                   blinkVars, clockVars, filtered, lost, longAgo, lastFall>>

\* Lines 254-255: the second load and interrupts().
RcUnlock ==
    /\ rcPc = "unlock"
    /\ seen' = gLastSeenMs
    /\ interrupts
    /\ rcPc' = "evaluate"
    /\ UNCHANGED <<us, isrVars, filterVars, gStablePercent, ledTaskVars,
                   blinkVars, clockVars, filtered, lost, longAgo, lastFall>>

\* Lines 257-270: the timeout test, the filter, the calibration, the
\* conversion and the sleep that ends the iteration.
RcEvaluate ==
    /\ rcPc = "evaluate"
    /\ IF IsStale(millis, seen)
       THEN /\ gStablePercent' = INVALID
            /\ lost' = (lost \/ IsStale(millis, gLastSeenMs))
            /\ UNCHANGED <<filterVars, filtered>>
       ELSE IF HasSample(us)
       THEN LET f == filterPulse(pulseBuffer, pulseIndex, us)
                avg == f.avg
                lo == IF avg < gMinPulse THEN avg ELSE gMinPulse
                hi == IF avg > gMaxPulse THEN avg ELSE gMaxPulse
            IN  /\ filtered < MaxFiltered
                /\ pulseBuffer' = f.buf
                /\ pulseIndex' = f.idx
                /\ gMinPulse' = lo
                /\ gMaxPulse' = hi
                /\ gStablePercent' = throttlePercentFromUs(avg, lo, hi)
                /\ filtered' = filtered + 1
                /\ UNCHANGED lost
       ELSE UNCHANGED <<filterVars, gStablePercent, filtered, lost>>
    /\ rcPc' = "lock"
    /\ UNCHANGED <<irqOff, us, seen, isrVars, ledTaskVars, blinkVars, clockVars,
                   longAgo, lastFall>>

\* =============================================================== Blinker
Active(b) == b.apply # NULL /\ b.periodMs # 0

\* stop() that does not call apply(false)
stop_noApply(b, l) ==
    [b   |-> [b EXCEPT !.apply = NULL, !.on = FALSE, !.periodMs = 0],
     led |-> l]

\* Blinker::stop on blinker b with LED outputs l.
stop(b, l) ==
    [b   |-> [b EXCEPT !.apply = NULL, !.on = FALSE, !.periodMs = 0],
     led |-> IF b.apply # NULL THEN ApplyColor(b.apply, FALSE) ELSE l]

\* start() that does not call stop() first
start_noStop(b, l, func, period, t) ==
    IF func = NULL \/ period = 0
    THEN [b |-> b, led |-> l, armed |-> FALSE]
    ELSE [b     |-> [apply |-> func, periodMs |-> period,
                     next |-> t, on |-> FALSE],
          led   |-> l,
          armed |-> TRUE]

\* start() that sets next = millis() + period
start_delayed(b, l, func, period, t) ==
    LET s == stop(b, l)
    IN  IF func = NULL \/ period = 0
        THEN [b |-> s.b, led |-> s.led, armed |-> FALSE]
        ELSE [b     |-> [apply |-> func, periodMs |-> period,
                         next |-> Add32(t, period), on |-> FALSE],
              led   |-> s.led,
              armed |-> TRUE]

\* start() that returns early for a null function only
start_noPeriodCheck(b, l, func, period, t) ==
    LET s == stop(b, l)
    IN  IF func = NULL
        THEN [b |-> s.b, led |-> s.led, armed |-> FALSE]
        ELSE [b     |-> [apply |-> func, periodMs |-> period,
                         next |-> t, on |-> FALSE],
              led   |-> s.led,
              armed |-> TRUE]

\* Blinker::start(func, period) with millis() = t; armed tells whether the
\* early return was not taken.
start(b, l, func, period, t) ==
    LET s == stop(b, l)
    IN  IF func = NULL \/ period = 0
        THEN [b |-> s.b, led |-> s.led, armed |-> FALSE]
        ELSE [b     |-> [apply |-> func, periodMs |-> period,
                         next |-> t, on |-> FALSE],
              led   |-> s.led,
              armed |-> TRUE]

\* next = now + periodMs instead of the catch-up loop
CatchUp_fromNow(next, t, period) == Add32(t, period)

RECURSIVE CatchUp(_, _, _)
\* do { next += periodMs; } while ((int32_t)(now - next) >= 0);
CatchUp(next, t, period) ==
    LET n == Add32(next, period)
    IN  IF SDiff(t, n) >= 0 THEN CatchUp(n, t, period) ELSE n

RECURSIVE Periods_due(_, _, _)
\* iterations of the catch-up loop
Periods_due(next, t, period) ==
    LET n == Add32(next, period)
    IN  IF SDiff(t, n) >= 0 THEN 1 + Periods_due(n, t, period) ELSE 1

\* run() that toggles inside the catch-up loop, once per period
run_togglePerPeriod(b, l, t) ==
    IF b.apply = NULL \/ b.periodMs = 0
    THEN [b |-> b, led |-> l, flips |-> 0]
    ELSE IF SDiff(t, b.next) >= 0
    THEN LET k == Periods_due(b.next, t, b.periodMs)
             o == IF k % 2 = 1 THEN ~b.on ELSE b.on
         IN  [b     |-> [b EXCEPT !.next = CatchUp(b.next, t, b.periodMs),
                                  !.on = o],
              led   |-> ApplyColor(b.apply, o),
              flips |-> k]
    ELSE [b |-> b, led |-> l, flips |-> 0]

\* run() that stops the pattern when a blink is complete
run_oneBlink(b, l, t) ==
    IF b.apply = NULL \/ b.periodMs = 0
    THEN [b |-> b, led |-> l, flips |-> 0]
    ELSE IF SDiff(t, b.next) >= 0
    THEN IF b.on
         THEN [b |-> stop(b, l).b, led |-> stop(b, l).led, flips |-> 1]
         ELSE [b     |-> [b EXCEPT !.next = CatchUp(b.next, t, b.periodMs),
                                   !.on = TRUE],
               led   |-> ApplyColor(b.apply, TRUE),
               flips |-> 1]
    ELSE [b |-> b, led |-> l, flips |-> 0]

\* run() without its first line: an inactive blinker flips on at the
\* deadline as an active one does
run_unguarded(b, l, t) ==
    IF SDiff(t, b.next) >= 0
    THEN [b     |-> [b EXCEPT !.next = IF b.periodMs = 0 THEN b.next
                                       ELSE CatchUp(b.next, t, b.periodMs),
                              !.on = ~b.on],
          led   |-> IF b.apply = NULL THEN l ELSE ApplyColor(b.apply, ~b.on),
          flips |-> 1]
    ELSE [b |-> b, led |-> l, flips |-> 0]

\* Blinker::run with millis() = t; flips counts the executions of
\* on = !on; apply(on).
run(b, l, t) ==
    IF b.apply = NULL \/ b.periodMs = 0
    THEN [b |-> b, led |-> l, flips |-> 0]
    ELSE IF SDiff(t, b.next) >= 0
    THEN [b     |-> [b EXCEPT !.next = CatchUp(b.next, t, b.periodMs),
                              !.on = ~b.on],
          led   |-> ApplyColor(b.apply, ~b.on),
          flips |-> 1]
    ELSE [b |-> b, led |-> l, flips |-> 0]

CapToggles(n) == IF n > MaxToggles THEN MaxToggles ELSE n

\* ----------------------------------------------- Blinker called directly
\* The three methods called in any order with any arguments, as a unit
\* test of the struct would.
CallStart ==
    /\ \E func \in Funcs, period \in Periods :
         LET r == start(throttleBlinker, led, func, period, millis)
         IN  /\ throttleBlinker' = r.b
             /\ led' = r.led
             /\ t0' = IF r.armed THEN millis ELSE t0
             /\ toggles' = IF r.armed THEN 0 ELSE toggles
    /\ cancelled' = IF Active(throttleBlinker) THEN throttleBlinker.apply
                     ELSE NULL
    /\ calls' = <<"stop", "start">>
    /\ UNCHANGED <<isrVars, rcVars, filterVars, gStablePercent, ledTaskVars,
                   clockVars, filtered, lost, longAgo, lastFall>>

CallStop ==
    /\ LET r == stop(throttleBlinker, led)
       IN  throttleBlinker' = r.b /\ led' = r.led
    /\ calls' = <<"stop">>
    /\ UNCHANGED <<t0, toggles, cancelled, isrVars, rcVars, filterVars, gStablePercent,
                   ledTaskVars, clockVars, filtered, lost, longAgo, lastFall>>

CallRun ==
    /\ LET r == run(throttleBlinker, led, millis)
       IN  /\ throttleBlinker' = r.b
           /\ led' = r.led
           /\ toggles' = CapToggles(toggles + r.flips)
    /\ calls' = <<"run">>
    /\ UNCHANGED <<t0, cancelled, isrVars, rcVars, filterVars, gStablePercent,
                   ledTaskVars, clockVars, filtered, lost, longAgo, lastFall>>

\* =============================================================== taskLed
VALUE_PATTERNS ==
    << [value |-> 100, color |-> "red"],
       [value |->  99, color |-> "yellow"],
       [value |->  98, color |-> "green"],
       [value |->  97, color |-> "purple"],
       [value |->   0, color |-> "orange"],
       [value |-> -50, color |-> "blue"],
       [value |-> -99, color |-> "lime"] >>

\* the search started at the second entry
findPattern_skipFirst(value) ==
    LET hits == {i \in 2..Len(VALUE_PATTERNS) : VALUE_PATTERNS[i].value = value}
    IN  IF hits = {} THEN 0
        ELSE CHOOSE i \in hits : \A j \in hits : i <= j

\* Index of the first entry with this value, 0 for nullptr.
findPattern(value) ==
    LET hits == {i \in 1..Len(VALUE_PATTERNS) : VALUE_PATTERNS[i].value = value}
    IN  IF hits = {} THEN 0
        ELSE CHOOSE i \in hits : \A j \in hits : i <= j

\* the comparison left out: every iteration counts as a change
Changed_always(cur, last) == TRUE

\* now != lastPercent
Changed(cur, last) == cur # last

\* Lines 278-293: read the result and react to a change.
LedUpdate ==
    /\ ledPc = "update"
    /\ ~irqOff
    /\ now' = gStablePercent
    /\ IF Changed(gStablePercent, lastPercent)
       THEN /\ lastPercent' = gStablePercent
            /\ IF gStablePercent # INVALID /\ findPattern(gStablePercent) # 0
               THEN LET pattern == VALUE_PATTERNS[findPattern(gStablePercent)]
                        r == start(throttleBlinker, led, pattern.color,
                                   BLINK_PERIOD, millis)
                    IN  /\ throttleBlinker' = r.b
                        /\ led' = r.led
                        /\ calls' = <<"stop", "start">>
               ELSE LET r == stop(throttleBlinker, led)
                    IN  /\ throttleBlinker' = r.b
                        /\ led' = rgbOff
                        /\ calls' = <<"stop">>
       ELSE /\ calls' = <<>>
            /\ UNCHANGED <<lastPercent, throttleBlinker, led>>
    /\ ledPc' = "run"
    /\ UNCHANGED <<t0, toggles, cancelled, isrVars, rcVars, filterVars,
                   gStablePercent, clockVars,
                   filtered, lost, longAgo, lastFall>>

\* Lines 294-295: throttleBlinker.run() and the sleep that ends the iteration.
LedRun ==
    /\ ledPc = "run"
    /\ ~irqOff
    /\ LET r == run(throttleBlinker, led, millis)
       IN  /\ throttleBlinker' = r.b
           /\ led' = r.led
    /\ calls' = Append(calls, "run")
    /\ ledPc' = "update"
    /\ UNCHANGED <<now, lastPercent, t0, toggles, cancelled, isrVars, rcVars, filterVars,
                   gStablePercent, clockVars, filtered, lost, longAgo, lastFall>>

\* ================================================================ clocks
\* d milliseconds pass, d taken from delays, within the budget.  The two
\* loads between noInterrupts() and interrupts() read no clock, so a step
\* of the clock between them is taken after them.
ClockStep(delays, budget) ==
    /\ ~irqOff
    /\ \E d \in delays :
         /\ spent + d <= budget
         /\ millis' = Add32(millis, d)
         /\ spent' = spent + d
    /\ UNCHANGED <<silences, isrVars, rcVars, filterVars, gStablePercent,
                   ledTaskVars, blinkVars, filtered, lost, longAgo, lastFall>>

\* Time passes while the firmware runs.
Tick == ClockStep(SysDelays, MaxUptime)

\* Time passes between two direct calls of the Blinker.
Wait == ClockStep(Delays, MaxElapsed)

\* Nothing is left to do: the result is invalid, taskLed has seen it, the
\* blinker is inactive and the sample is stale, so every iteration of both
\* threads changes nothing while no edge arrives.
Quiescent ==
    /\ rcPc = "lock" /\ ledPc = "update"
    /\ gStablePercent = INVALID /\ lastPercent = INVALID
    /\ ~Active(throttleBlinker)
    /\ IsStale(millis, gLastSeenMs)

\* The receiver stays silent until the millisecond counter is one count
\* short of the value it had when the last sample was published.  The
\* sample is stale during all of that time, so the iterations of both
\* threads that fall into it change nothing and are skipped.
LongSilence ==
    /\ silences < MaxSilences
    /\ Quiescent
    /\ millis' = Sub32(gLastSeenMs, 1)
    /\ silences' = silences + 1
    /\ longAgo' = TRUE
    /\ UNCHANGED <<spent, isrVars, rcVars, filterVars, gStablePercent,
                   ledTaskVars, blinkVars, filtered, lost, lastFall>>

\* ======================================================== specifications
\* The firmware: the interrupt handler, the two threads and the clock.
Next ==
    \/ RisingEdge \/ FallingEdge
    \/ RcLock \/ RcUnlock \/ RcEvaluate
    \/ LedUpdate \/ LedRun
    \/ Tick \/ LongSilence

Spec == Init /\ [][Next]_vars

\* The Blinker struct alone, its methods called in any order.
NextBlinker == CallStart \/ CallStop \/ CallRun \/ Wait \/ LongSilence

SpecBlinker == Init /\ [][NextBlinker]_vars

\* The interrupt handler alone, edges served in any order as time passes.
NextCapture == CaptureRise \/ CaptureFall \/ Tick

SpecCapture == Init /\ [][NextCapture]_vars

\* ================================================================ claims
\* C1: the pair (us, seen) that taskRcInput has copied when it leaves its
\* noInterrupts()/interrupts() section is the pair (gLastPulseUs,
\* gLastSeenMs) of that moment, which one falling edge wrote (or the initial
\* 0, 0): no edge is served between the two loads.
NoTornSample ==
    [][(rcPc = "unlock" /\ rcPc' = "evaluate")
        => (us' = gLastPulseUs' /\ seen' = gLastSeenMs'
            /\ UNCHANGED <<gLastPulseUs, gLastSeenMs>>)]_vars

\* taskRcInput holds a complete older sample while the handler has already
\* published a newer one.
SnapshotThenNewerSample ==
    /\ rcPc = "evaluate"
    /\ us = RC_MAX_US /\ gLastPulseUs = RC_MIN_US
    /\ seen # gLastSeenMs

\* C2: a falling edge whose measured width is outside [RC_MIN_US,
\* RC_MAX_US] leaves gLastPulseUs and gLastSeenMs unchanged, one inside the
\* band sets both, and gLastPulseUs is always 0 or inside the band.
Measured(w) == IF w > MaxU16 THEN MaxU16 ELSE w

StaleIsSafe ==
    [][/\ gLastPulseUs' = 0
          \/ (gLastPulseUs' >= RC_MIN_US /\ gLastPulseUs' <= RC_MAX_US)
       /\ \A w \in Widths :
            onRcChange("LOW", Add32(gRiseUs, w))
            => IF Measured(w) >= RC_MIN_US /\ Measured(w) <= RC_MAX_US
               THEN gLastPulseUs' = Measured(w) /\ gLastSeenMs' = millis
               ELSE UNCHANGED <<gLastPulseUs, gLastSeenMs>>]_vars

\* A pulse that started just before the microsecond counter wrapped has been
\* published at a later time than the sample taskRcInput holds.
SamplePublished ==
    /\ gLastPulseUs = RC_MAX_US /\ gRiseUs = -1000
    /\ gLastSeenMs = 400 /\ seen = 0 /\ us = RC_MIN_US

SignalLossKeepsLedOff ==
    lost => /\ gStablePercent = INVALID
            /\ lastPercent = INVALID
               => (~Active(throttleBlinker) /\ led = Off)

\* C5 as stated: a pattern ends by itself.  Whatever number n of blinks, up
\* to MaxBlinks, it is read as started for, after 2 * MaxBlinks toggles it
\* is INACTIVE with the output off.
MaxBlinks == MaxToggles \div 2

ExactToggleCount ==
    toggles >= 2 * MaxBlinks
    => (~Active(throttleBlinker) /\ led = Off)

\* C5 as amended: start() takes no blink count and a pattern never ends by
\* itself.  Every run() of an active pattern leaves it active with the same
\* colour and period, and when the deadline has come it flips on and applies
\* the colour; only stop() or another start() ends the pattern.
BlinksUntilStopped ==
    [][(CallRun /\ Active(throttleBlinker))
        => /\ Active(throttleBlinker')
           /\ throttleBlinker'.apply = throttleBlinker.apply
           /\ throttleBlinker'.periodMs = throttleBlinker.periodMs
           /\ SDiff(millis, throttleBlinker.next) >= 0
              => /\ throttleBlinker'.on = ~throttleBlinker.on
                 /\ led' = ApplyColor(throttleBlinker.apply,
                                      ~throttleBlinker.on)]_vars

\* A pattern has toggled as often as the model counts and is still active
\* and lit.
StillBlinking ==
    /\ toggles = MaxToggles
    /\ Active(throttleBlinker)
    /\ led # Off

\* C6: start() turns the LED off and arms the new pattern unlit, whatever
\* pattern was active; the LED is never lit in any colour but that of the
\* pattern now armed, and each toggle moves the deadline by whole periods of
\* that pattern.
NoQueuing ==
    [][/\ led' # Off
          => /\ Active(throttleBlinker')
             /\ throttleBlinker'.on
             /\ led' = ApplyColor(throttleBlinker'.apply, TRUE)
       /\ CallStart => (led' = Off /\ ~throttleBlinker'.on)
       /\ (CallRun /\ throttleBlinker'.on # throttleBlinker.on)
          => /\ throttleBlinker'.apply = throttleBlinker.apply
             /\ Sub32(throttleBlinker'.next, throttleBlinker.next) > 0
             /\ Sub32(throttleBlinker'.next, throttleBlinker.next)
                   % throttleBlinker.periodMs = 0]_vars

\* A red pattern was cancelled by the start of a blue one with another
\* period, which has toggled since and is lit.
SecondPatternLit ==
    /\ cancelled = "red"
    /\ throttleBlinker.apply = "blue" /\ throttleBlinker.periodMs = 300
    /\ toggles >= 3
    /\ led = ApplyColor("blue", TRUE)

\* C7 as stated: after start() at t0 the deadline is t0 + period and no
\* toggle happens before that time.
FirstToggleAfterOnePeriod ==
    Active(throttleBlinker)
    => /\ toggles = 0
          => throttleBlinker.next = Add32(t0, throttleBlinker.periodMs)
       /\ toggles >= 1
          => Sub32(millis, t0) >= throttleBlinker.periodMs

\* C7 as amended: after start() at t0 the deadline is t0 itself and the LED
\* is off; the first run() at any time from t0 on toggles the LED on.
FirstToggleAtStart ==
    [][/\ (Active(throttleBlinker') /\ toggles' = 0)
          => /\ throttleBlinker'.next = t0'
             /\ ~throttleBlinker'.on
             /\ led' = Off
       /\ (CallRun /\ Active(throttleBlinker) /\ toggles = 0
           /\ Sub32(millis, t0) >= 0)
          => /\ toggles' = 1
             /\ throttleBlinker'.on
             /\ led' = ApplyColor(throttleBlinker.apply, TRUE)]_vars

\* The LED was turned on by a run() in the same millisecond as start().
LitAtStartTime ==
    /\ Active(throttleBlinker) /\ toggles = 1
    /\ millis = t0
    /\ led # Off

\* C8: one run() toggles at most once, and after a run() that toggled the
\* deadline is later than the time that run() read.
BoundedWorkPerTick ==
    [][CallRun
        => /\ toggles' <= toggles + 1
           /\ throttleBlinker'.on # throttleBlinker.on
              => /\ SDiff(throttleBlinker'.next, millis) > 0
                 /\ SDiff(throttleBlinker'.next, millis)
                       <= throttleBlinker.periodMs]_vars

\* One toggle was made by a run() that came five periods late.
OneToggleAfterStall ==
    /\ Active(throttleBlinker) /\ toggles = 1
    /\ Sub32(throttleBlinker.next, t0) > 5 * throttleBlinker.periodMs

\* C9: while a pattern started at t0 is active its deadline is t0 plus a
\* whole number of periods.
DriftFree ==
    Active(throttleBlinker)
    => /\ Sub32(throttleBlinker.next, t0) >= 0
       /\ Sub32(throttleBlinker.next, t0) % throttleBlinker.periodMs = 0

\* run() was called off the grid and late, and toggled more than once.
LateOffGrid ==
    /\ Active(throttleBlinker) /\ toggles >= 2
    /\ Sub32(millis, t0) % throttleBlinker.periodMs # 0
    /\ Sub32(throttleBlinker.next, t0) > 5 * throttleBlinker.periodMs

\* C10: an iteration of taskLed that reads a result different from the one
\* of the iteration before stops the pattern (LED off) and starts one new
\* pattern exactly when the new value has an entry in the table; an
\* iteration that reads the same result calls neither start() nor stop();
\* either iteration then calls run() once.
HasPattern(v) ==
    v # INVALID /\ \E i \in 1..Len(VALUE_PATTERNS) : VALUE_PATTERNS[i].value = v

ColorOf(v) ==
    VALUE_PATTERNS[CHOOSE i \in 1..Len(VALUE_PATTERNS) :
                      VALUE_PATTERNS[i].value = v].color

ReactionToChange ==
    [][/\ (ledPc = "update" /\ ledPc' = "run")
          => IF gStablePercent # lastPercent
             THEN /\ led' = Off
                  /\ ~throttleBlinker'.on
                  /\ IF HasPattern(gStablePercent)
                     THEN /\ calls' = <<"stop", "start">>
                          /\ Active(throttleBlinker')
                          /\ throttleBlinker'.apply = ColorOf(gStablePercent)
                     ELSE /\ calls' = <<"stop">>
                          /\ ~Active(throttleBlinker')
             ELSE /\ calls' = <<>>
                  /\ UNCHANGED <<throttleBlinker, led>>
       /\ (ledPc = "run" /\ ledPc' = "update")
          => calls' = Append(calls, "run")]_vars

\* After an earlier valid result, taskLed has read the changed result 100,
\* started the red pattern and run it.
PatternReplaced ==
    /\ ledPc = "update"
    /\ calls = <<"stop", "start", "run">>
    /\ filtered >= 2
    /\ lastPercent = 100
    /\ led = ApplyColor("red", TRUE)

\* the sample as the handler left it
Sample == <<gLastPulseUs, gLastSeenMs>>

\* the microsecond counter passed 2^32 - 1 between the rise and the fall
Wrapped(f) == ULt(Add32(f.rise, f.width), f.rise)

\* C11: a pulse whose rising edge is taken before the 32-bit microsecond
\* counter wraps and whose falling edge is taken after it has the width
\* (f - r) mod 2^32: when that width lies in 800..2200 the handler publishes
\* exactly it, as it does for the same pulse without the wrap.
WrapSafeWidth ==
    (/\ Wrapped(lastFall)
     /\ lastFall.width >= RC_MIN_US
     /\ lastFall.width <= RC_MAX_US)
        => /\ lastFall.published
           /\ gLastPulseUs = lastFall.width
           /\ gLastPulseUs = PulseWidth(lastFall.width, 0)

\* A 2200 us pulse that rose 1000 us before the counter wrapped has been
\* published, over an earlier sample of 800 us.
WrappedPulsePublished ==
    /\ lastFall.rise = -1000 /\ lastFall.width = RC_MAX_US
    /\ Wrapped(lastFall)
    /\ lastFall.published
    /\ lastFall.prior[1] = RC_MIN_US
    /\ gLastPulseUs = RC_MAX_US

\* C15: a falling edge more than 0xFFFF us after its rise publishes
\* nothing: the sample is the one the handler found, so no duration above
\* 65535 us reaches the band as its remainder modulo 2^16.
OverlongRejected ==
    lastFall.width > MaxU16
        => /\ ~lastFall.published
           /\ Sample = lastFall.prior

\* A pulse of 66535 us, which a bare cast to 16 bits would turn into 999 us,
\* a width in the band, was served after a sample of 2200 us published at
\* 200 ms, and that sample is still there.
OverlongDropped ==
    /\ lastFall.width = MaxU16 + 1000
    /\ ~lastFall.published
    /\ lastFall.prior = <<RC_MAX_US, 200>>
    /\ Sample = <<RC_MAX_US, 200>>

\* C17 as stated: a falling edge exactly RC_MIN_US after its rise is
\* discarded, the sample the handler found is untouched.
LowerBoundExclusive ==
    lastFall.width = RC_MIN_US
        => /\ ~lastFall.published
           /\ Sample = lastFall.prior

\* C17: the lower limit belongs to the band.  A falling edge exactly
\* RC_MIN_US after its rise is published with width RC_MIN_US; one
\* microsecond less and the sample the handler found is untouched.
LowerBoundInclusive ==
    /\ lastFall.width = RC_MIN_US
          => /\ lastFall.published
             /\ gLastPulseUs = RC_MIN_US
    /\ lastFall.width = RC_MIN_US - 1
          => /\ ~lastFall.published
             /\ Sample = lastFall.prior

\* A pulse of exactly 800 us has replaced a sample of 2200 us.
MinWidthPublished ==
    /\ lastFall.width = RC_MIN_US
    /\ lastFall.published
    /\ lastFall.prior[1] = RC_MAX_US
    /\ gLastPulseUs = RC_MIN_US

\* C12: run() on an inactive blinker (no colour function or a zero period)
\* changes no field of the blinker (apply, periodMs, next, on), no LED
\* output and counts no toggle, however late the call is.
RunInactiveIsNoOp ==
    [][(CallRun /\ ~Active(throttleBlinker))
          => UNCHANGED <<throttleBlinker, led, toggles>>]_vars

\* run() was called on a blinker that a stop() made inactive after one
\* toggle, at or after the deadline the stopped pattern has left in next.
InactiveRunDone ==
    /\ calls = <<"run">>
    /\ ~Active(throttleBlinker)
    /\ toggles = 1
    /\ SDiff(millis, throttleBlinker.next) >= 0
    /\ led = Off

\* no colour function, no period, on = false
Cleared(b) == b.apply = NULL /\ b.periodMs = 0 /\ ~b.on

\* C13: stop() leaves the blinker inactive with on = false and every LED
\* output off, whatever state it was called in, and a second stop() changes
\* nothing more.
StopLeavesInactive ==
    [][CallStop
          => /\ ~Active(throttleBlinker')
             /\ Cleared(throttleBlinker')
             /\ led' = Off
             /\ stop(throttleBlinker', led')
                    = [b |-> throttleBlinker', led |-> led']]_vars

\* stop() was the last call, after a pattern that had toggled once.
StoppedAfterToggle ==
    /\ calls = <<"stop">>
    /\ toggles = 1
    /\ Cleared(throttleBlinker)
    /\ led = Off

\* the arguments start() returns early for
Misconfigured(func, period) == func = NULL \/ period = 0

\* C14: start() with a null colour function or a zero period arms nothing:
\* in every reachable state such a call leaves the blinker cleared, and a
\* run() after it, however late, toggles nothing; a start() that has left
\* the blinker inactive has left it cleared with the LED off.
MisconfiguredStartRejected ==
    /\ \A func \in Funcs, period \in Periods :
         Misconfigured(func, period) =>
            LET r == start(throttleBlinker, led, func, period, millis)
            IN  /\ ~r.armed
                /\ Cleared(r.b)
                /\ \A d \in Delays \cup {0} :
                     LET q == run(r.b, r.led, Add32(millis, d))
                     IN  q.flips = 0 /\ q.b = r.b /\ q.led = r.led
    /\ (calls = <<"stop", "start">> /\ ~Active(throttleBlinker))
          => Cleared(throttleBlinker) /\ led = Off

\* A start() found the red pattern active, after one toggle, and left the
\* blinker inactive: it was called with a null function or a zero period.
RejectedStartDone ==
    /\ calls = <<"stop", "start">>
    /\ ~Active(throttleBlinker)
    /\ cancelled = "red"
    /\ toggles = 1
    /\ led = Off

\* C16: the staleness test answers as an unbounded clock would when the
\* millisecond counter has wrapped between the timestamp of the sample and
\* now.  When taskRcInput is about to evaluate a snapshot of a published
\* sample that is 2^32 - 1 ms old or older, the unbounded clock says stale,
\* and so must millis() - seen > RC_TIMEOUT_MS.
StalenessAgreesWithUnboundedClock ==
    (/\ rcPc = "evaluate"
     /\ longAgo
     /\ us > 0
     /\ us = gLastPulseUs /\ seen = gLastSeenMs)
        => IsStale(millis, seen)

\* C18: as long as no pulse has been published (gLastPulseUs = 0) the
\* result is invalid, the blinker is inactive and the LED is off, the first
\* RC_TIMEOUT_MS after boot included, when the initial timestamp 0 is not
\* stale yet.
NoResultBeforeFirstPulse ==
    gLastPulseUs = 0
        => /\ gStablePercent = INVALID
           /\ us = 0
           /\ lastPercent = INVALID
           /\ ~Active(throttleBlinker)
           /\ led = Off

\* Edges have been served but none was published, taskRcInput has taken
\* its timeout branch and taskLed has called run().
OnlyRejectedPulses ==
    /\ gLastPulseUs = 0
    /\ gRiseUs = -1000
    /\ lost
    /\ calls = <<"run">>
    /\ gStablePercent = INVALID
    /\ led = Off

\* C19: when an iteration of taskLed has ended, the result it observed is
\* lastPercent; the blinker is active exactly when that result is valid and
\* has an entry in VALUE_PATTERNS, with the colour of that entry and the
\* period of 200 ms; otherwise the blinker is inactive and every LED output
\* is off.
LedReflectsResult ==
    ledPc = "update"
        => /\ now = lastPercent
           /\ IF HasPattern(lastPercent)
              THEN /\ Active(throttleBlinker)
                   /\ throttleBlinker.apply = ColorOf(lastPercent)
                   /\ throttleBlinker.periodMs = BLINK_PERIOD
              ELSE /\ ~Active(throttleBlinker)
                   /\ led = Off

\* An iteration that observed 100 again, and so called run() only, has
\* ended with the red pattern lit.
RedPatternKept ==
    /\ ledPc = "update"
    /\ lastPercent = 100
    /\ calls = <<"run">>
    /\ throttleBlinker.apply = "red"
    /\ led = ApplyColor("red", TRUE)

\* C20: every step leaves gStablePercent at 0x7FFF or in -100..100, never
\* raises gMinPulse and never lowers gMaxPulse; a step that filters a
\* sample converts an average that lies between the calibration bounds it
\* has just updated, so the interval index (avg - gMinPulse) / step is not
\* negative.
ResultInRange ==
    [][/\ \/ gStablePercent' = INVALID
          \/ (gStablePercent' >= -100 /\ gStablePercent' <= 100)
       /\ gMinPulse' <= gMinPulse
       /\ gMaxPulse' >= gMaxPulse
       /\ filtered' # filtered
             => LET avg == filterPulse(pulseBuffer, pulseIndex, us).avg
                IN  /\ gMinPulse' <= avg
                    /\ avg <= gMaxPulse'
                    /\ gStablePercent'
                          = throttlePercentFromUs(avg, gMinPulse', gMaxPulse')
                    /\ gStablePercent' # INVALID]_vars

\* Samples of 800 us and 2200 us were filtered: the average 1500 lies
\* between the bounds 800 and 1500, the index 700 / 3 = 233 gives 133,
\* and the result is 100.
ResultClamped ==
    /\ filtered = 2
    /\ gMinPulse = RC_MIN_US /\ gMaxPulse = 1500
    /\ gStablePercent = 100

====
